---- MODULE Spec2Model ----
(***************************************************************************)
(* Model of src/console-log-capture.js: the ConsoleCapture aggregator that *)
(* listens to a Playwright page's console, pageerror and response events,  *)
(* and attachConsoleCapture, which constructs it.                          *)
(*                                                                         *)
(* JavaScript strings are sequences of one-character strings, so that      *)
(* replace, startsWith, the regular expressions and the template literals  *)
(* are computed character by character, as the code computes them.         *)
(***************************************************************************)
EXTENDS Integers, Sequences, FiniteSets, TLC

\* ------------------------------------------------------------------ bounds

\* Most records the model lets the aggregator store.
MaxMessages == 3
\* Longest raw URL and longest base prefix of the exhaustive check of
\* _formatLocation.
MaxUrlLen == 4
MaxPrefixLen == 2
\* Most reports the model lets a test print or save.
MaxReports == 2

\* --------------------------------------------------------- JavaScript values

\* A JavaScript value that the code treats as undefined, a number or a string.
JsUndef == [t |-> "undef", n |-> 0, s |-> <<>>]
JsNum(n) == [t |-> "num", n |-> n, s |-> <<>>]
JsStr(s) == [t |-> "str", n |-> 0, s |-> s]

Digits == <<"0", "1", "2", "3", "4", "5", "6", "7", "8", "9">>
IsDigit(c) == \E d \in 1..10 : Digits[d] = c
DigitVal(c) == (CHOOSE d \in 1..10 : Digits[d] = c) - 1

\* Number to its decimal string (template literal of a non-negative integer).
RECURSIVE NumToStr(_)
NumToStr(n) ==
  IF n < 10 THEN <<Digits[n + 1]>>
  ELSE NumToStr(n \div 10) \o <<Digits[(n % 10) + 1]>>

\* A string of decimal digits to its number (ToNumber of a \d+ capture).
RECURSIVE StrToNum(_)
StrToNum(s) ==
  IF s = <<>> THEN 0
  ELSE 10 * StrToNum(SubSeq(s, 1, Len(s) - 1)) + DigitVal(s[Len(s)])

\* JavaScript truthiness: undefined, 0 and '' are falsy; '0' is truthy.
Truthy(v) ==
  CASE v.t = "undef" -> FALSE
    [] v.t = "num" -> v.n # 0
    [] v.t = "str" -> v.s # <<>>

\* v > 0 after ToNumber; undefined is NaN, and NaN > 0 is false.
GreaterThanZero(v) ==
  CASE v.t = "undef" -> FALSE
    [] v.t = "num" -> v.n > 0
    [] v.t = "str" -> v.s # <<>> /\ StrToNum(v.s) > 0

\* `${v}` of a number or a string.
Interpolate(v) ==
  CASE v.t = "undef" -> <<"u", "n", "d", "e", "f", "i", "n", "e", "d">>
    [] v.t = "num" -> NumToStr(v.n)
    [] v.t = "str" -> v.s

\* String.prototype.startsWith.
StartsWith(s, p) == Len(p) <= Len(s) /\ SubSeq(s, 1, Len(p)) = p

\* String.prototype.indexOf from position i on: the first place p occurs in
\* s, 0 when it does not.
RECURSIVE IndexFrom(_, _, _)
IndexFrom(s, p, i) ==
  IF i + Len(p) - 1 > Len(s) THEN 0
  ELSE IF SubSeq(s, i, i + Len(p) - 1) = p THEN i
  ELSE IndexFrom(s, p, i + 1)

IndexOf(s, p) == IndexFrom(s, p, 1)

\* s.replace(p, ''): the first occurrence of the string p, wherever it is.
ReplaceFirst(s, p) ==
  LET i == IndexOf(s, p)
  IN IF i = 0 THEN s
     ELSE SubSeq(s, 1, i - 1) \o SubSeq(s, i + Len(p), Len(s))

\* s.replace(/^\//, ''): one leading slash.
StripLeadingSlash(s) ==
  IF s # <<>> /\ s[1] = "/" THEN SubSeq(s, 2, Len(s)) ELSE s

UpperOf ==
  [c \in {"a", "e", "g", "i", "l", "n", "o", "r", "w"} |->
     CASE c = "a" -> "A" [] c = "e" -> "E" [] c = "g" -> "G" [] c = "i" -> "I"
       [] c = "l" -> "L" [] c = "n" -> "N" [] c = "o" -> "O" [] c = "r" -> "R"
       [] c = "w" -> "W"]

\* String.prototype.toUpperCase, character by character.
ToUpperCase(s) ==
  [i \in 1..Len(s) |-> IF s[i] \in DOMAIN UpperOf THEN UpperOf[s[i]] ELSE s[i]]

\* ------------------------------------------------------- strings of the code

Str_ERROR == <<"E", "R", "R", "O", "R">>
Str_WARNING == <<"W", "A", "R", "N", "I", "N", "G">>
Str_Uncaught == <<"U", "n", "c", "a", "u", "g", "h", "t", ":", " ">>
Str_HTTP == <<"H", "T", "T", "P", " ">>
Str_http == <<"h", "t", "t", "p">>
DefaultTitle ==
  <<"B", "r", "o", "w", "s", "e", "r", " ", "C", "o", "n", "s", "o", "l", "e",
    " ", "L", "o", "g", " ", "C", "a", "p", "t", "u", "r", "e">>
Str_console_capture ==
  <<"c", "o", "n", "s", "o", "l", "e", "-", "c", "a", "p", "t", "u", "r", "e">>

\* ------------------------------------------------------------ pure functions

\* toFixed(2) of ms / 1000 for ms >= 0: the nearest hundredth, then
\* "<integer part>.<two digits>".  (The clock values of the specifications
\* are never half way between two hundredths.)
ToFixed2(ms) ==
  LET cs == (ms + 5) \div 10
  IN NumToStr(cs \div 100) \o <<".">>
       \o <<Digits[((cs % 100) \div 10) + 1], Digits[(cs % 10) + 1]>>

\* String.prototype.padStart(width, '0').
PadStart0_Off(s, width) == s

RECURSIVE PadStart0(_, _)
PadStart0(s, width) ==
  IF Len(s) >= width THEN s ELSE PadStart0(<<"0">> \o s, width)

\* ConsoleCapture._getTimestamp, reading the clock as now.
_getTimestamp(now, start) ==
  <<"[">> \o PadStart0(ToFixed2(now - start), 5) \o <<"]">>

\* The path of a location: the base URL removed where it first occurs and
\* then one leading slash, when a base URL is set.
FormatFile(base, url) ==
  IF base # <<>> THEN StripLeadingSlash(ReplaceFirst(url, base)) ELSE url

\* ConsoleCapture._formatLocation(url, lineNum, colNum); base is this.baseUrl.
_formatLocation(base, url, lineNum, colNum) ==
  IF ~Truthy(url) THEN <<>>
  ELSE LET file == FormatFile(base, url.s)
       IN IF GreaterThanZero(lineNum)
          THEN IF Truthy(colNum)
               THEN file \o <<":">> \o Interpolate(lineNum) \o <<":">>
                      \o Interpolate(colNum)
               ELSE file \o <<":">> \o Interpolate(lineNum)
          ELSE file

\* The end of the run of digits of s that starts at i (i - 1 when s[i] is
\* no digit): a greedy \d+.
RECURSIVE DigitRunEnd(_, _)
DigitRunEnd(s, i) ==
  IF i <= Len(s) /\ IsDigit(s[i]) THEN DigitRunEnd(s, i + 1) ELSE i - 1

\* :(\d+):(\d+) matches s at j: a colon, digits, a colon, digits.
LineColAt(s, j) ==
  /\ j <= Len(s)
  /\ s[j] = ":"
  /\ LET e1 == DigitRunEnd(s, j + 1)
     IN /\ e1 >= j + 1
        /\ e1 + 1 <= Len(s)
        /\ s[e1 + 1] = ":"
        /\ DigitRunEnd(s, e1 + 2) >= e1 + 2

\* The lazy (.*?) from j on: the first place :(\d+):(\d+) matches, with no
\* line break before it; 0 when there is none.
RECURSIVE FileEnd(_, _)
FileEnd(s, j) ==
  IF j > Len(s) THEN 0
  ELSE IF LineColAt(s, j) THEN j
  ELSE IF s[j] = "\n" THEN 0
  ELSE FileEnd(s, j + 1)

NoMatch == [found |-> FALSE, file |-> <<>>, line |-> <<>>, col |-> <<>>]

\* s.match(/at (.*?):(\d+):(\d+)/) trying the start positions from i on.
RECURSIVE MatchFrom(_, _)
MatchFrom(s, i) ==
  IF i + 2 > Len(s) THEN NoMatch
  ELSE IF SubSeq(s, i, i + 2) = <<"a", "t", " ">> /\ FileEnd(s, i + 3) # 0
  THEN LET j == FileEnd(s, i + 3)
           e1 == DigitRunEnd(s, j + 1)
           e2 == DigitRunEnd(s, e1 + 2)
       IN [found |-> TRUE,
           file |-> SubSeq(s, i + 3, j - 1),
           line |-> SubSeq(s, j + 1, e1),
           col |-> SubSeq(s, e1 + 2, e2)]
  ELSE MatchFrom(s, i + 1)

MatchFrame(s) == MatchFrom(s, 1)

\* The level the console handler gives a message of this type.
ConsoleLevel_CaseSensitive(type) ==
  IF type = <<"e", "r", "r", "o", "r">> THEN "ERROR"
  ELSE IF type = <<"w", "a", "r", "n", "i", "n", "g">> THEN "WARN"
  ELSE "INFO"

ConsoleLevel(type) ==
  IF ToUpperCase(type) = Str_ERROR THEN "ERROR"
  ELSE IF ToUpperCase(type) = Str_WARNING THEN "WARN"
  ELSE "INFO"

\* new URL(url): `${protocol}//${host}`, for a URL "<protocol>//<host>...".
UrlOrigin(url) ==
  LET c == IndexOf(url, <<":">>)
      rest == SubSeq(url, c + 3, Len(url))
      ends == {k \in 1..Len(rest) : rest[k] \in {"/", "?", "#"}}
      hostLen == IF ends = {} THEN Len(rest)
                 ELSE (CHOOSE a \in ends : \A b \in ends : a <= b) - 1
  IN SubSeq(url, 1, c + 2 + hostLen)

\* Array.prototype.sort((a, b) => a.time - b.time): stable, ascending.
RECURSIVE InsertByTime_TiesReversed(_, _)
InsertByTime_TiesReversed(sorted, m) ==
  IF sorted = <<>> THEN <<m>>
  ELSE IF sorted[Len(sorted)].time < m.time THEN Append(sorted, m)
  ELSE Append(InsertByTime_TiesReversed(SubSeq(sorted, 1, Len(sorted) - 1), m),
              sorted[Len(sorted)])

RECURSIVE InsertByTime(_, _)
InsertByTime(sorted, m) ==
  IF sorted = <<>> THEN <<m>>
  ELSE IF sorted[Len(sorted)].time <= m.time THEN Append(sorted, m)
  ELSE Append(InsertByTime(SubSeq(sorted, 1, Len(sorted) - 1), m),
              sorted[Len(sorted)])

RECURSIVE SortByTime(_)
SortByTime(ms) ==
  IF ms = <<>> THEN <<>>
  ELSE InsertByTime(SortByTime(SubSeq(ms, 1, Len(ms) - 1)), ms[Len(ms)])

\* ------------------------------------------------------------------- inputs

Origin == <<"h", "t", "t", "p", ":", "/", "/", "x">>
UrlA == Origin \o <<"/", "a", ".", "j", "s">>
UrlB == <<"h", "t", "t", "p", ":", "/", "/", "y", "/", "b", ".", "j", "s">>
PageUrl == Origin \o <<"/", "p", "?", "q">>
StackA == <<"E", "\n", " ", "a", "t", " ">> \o UrlA \o <<":", "1", "0", ":", "5">>

\* What Date.now() may return: the wall clock.  SteadyClock is a clock that
\* stands still; ClockValues is one that may also advance or step back
\* between two reads.
StartTimes == {1000}
SteadyClock == {1040}
ClockValues == {1000, 1040}
\* Readings 0.04 s, 0.046 s, 12.5 s and 100 s after the start.
StampClock == {1040, 1046, 13500, 101000}

\* options.baseUrl and options.autoLog as passed to attachConsoleCapture.
BaseUrlOptions == {JsUndef, JsStr(Origin)}
AutoLogOptions == {"undefined", "true", "false"}

Loc(url, line, col) ==
  [present |-> TRUE, url |-> url, lineNumber |-> line, columnNumber |-> col]

\* location() returning undefined.
AbsentLoc ==
  [present |-> FALSE, url |-> JsUndef, lineNumber |-> JsUndef,
   columnNumber |-> JsUndef]

\* Console messages: type(), location(), text().
ConsoleError ==
  [type |-> <<"e", "r", "r", "o", "r">>,
   loc |-> Loc(JsStr(UrlA), JsNum(10), JsNum(5)), text |-> <<"m">>]
ConsoleWarning ==
  [type |-> <<"W", "a", "r", "n", "i", "n", "g">>,
   loc |-> Loc(JsStr(<<>>), JsNum(0), JsNum(0)), text |-> <<"w">>]
ConsoleLog ==
  [type |-> <<"l", "o", "g">>,
   loc |-> Loc(JsStr(UrlB), JsNum(3), JsNum(0)), text |-> <<"i">>]
ConsoleErrorNoLocation ==
  [type |-> <<"e", "r", "r", "o", "r">>, loc |-> AbsentLoc, text |-> <<"m">>]
ConsoleLogNoUrl ==
  [type |-> <<"l", "o", "g">>,
   loc |-> Loc(JsUndef, JsUndef, JsUndef), text |-> <<"i">>]

\* Uncaught exceptions: message and stack.
ErrorNoStack == [message |-> <<"x">>, stack |-> JsUndef]
ErrorWithStack == [message |-> <<"x">>, stack |-> JsStr(StackA)]
ErrorFrameInMessage ==
  [message |-> <<"a", "t", " ", "f", ":", "1", ":", "2">>, stack |-> JsUndef]

\* Console messages and exceptions as Playwright delivers them.
ConsoleEvents == {ConsoleError, ConsoleWarning, ConsoleLog}
PageErrors == {ErrorNoStack, ErrorWithStack}

\* Those of a host that leaves location data out.
HostConsoleEvents == {ConsoleError, ConsoleErrorNoLocation, ConsoleLogNoUrl}
HostPageErrors == {ErrorNoStack, ErrorFrameInMessage}

StatusText(status) ==
  CASE status = 200 -> <<"O", "K">>
    [] status = 404 -> <<"N", "F">>
    [] status = 500 -> <<"I", "S", "E">>

Resp(url, status) ==
  [url |-> url, status |-> status, statusText |-> StatusText(status)]

Responses == {Resp(u, st) : u \in {UrlA, UrlB}, st \in {200, 404, 500}}
ResponsesA == {Resp(UrlA, st) : st \in {200, 404, 500}}

\* framenavigated: whether the frame is page.mainFrame(), and frame.url().
Navigations ==
  {[main |-> m, url |-> u] :
     m \in BOOLEAN,
     u \in {JsStr(PageUrl), JsStr(UrlB),
            JsStr(<<"a", "b", "o", "u", "t", ":", "b">>)}}

Titles == {JsUndef, JsStr(<<"T">>)}

\* options.saveToFile as passed to attachConsoleCapture.
SaveToFileOptions == {JsUndef, JsNum(1)}

\* -------------------------------------------------------------------- state

VARIABLES
  baseUrl,         \* this.baseUrl
  autoLog,         \* this.autoLog
  startTime,       \* this.startTime
  messages,        \* this.messages
  errors,          \* this.errors
  warnings,        \* this.warnings
  reportedErrors,  \* this.reportedErrors
  options,         \* the options object attachConsoleCapture was given
  onceListener,    \* the page.once('framenavigated') listener is registered
  sink,            \* what console.log has written
  given,           \* options.baseUrl as attachConsoleCapture was called
  last,            \* the event or call handled last, its input, the state before
  raised,          \* whether handling it threw
  ret,             \* what the last getOutput or getSummary returned
  produced,        \* events so far that are to produce a record
  failedUrls,      \* URLs of the responses with status >= 400 so far
  firstNav,        \* origin of the first main-frame navigation to http(s)
  probe,           \* input and result of a pure function under check
  saveToFile,      \* this.saveToFile
  file             \* what saveOutput wrote last to a file of test-results

vars ==
  <<baseUrl, autoLog, startTime, messages, errors, warnings, reportedErrors,
    options, onceListener, sink, given, last, raised, ret, produced,
    failedUrls, firstNav, probe, saveToFile, file>>

aggregator ==
  <<baseUrl, autoLog, startTime, messages, errors, warnings, reportedErrors,
    options, onceListener, sink, given, last, raised, ret, produced,
    failedUrls, firstNav, saveToFile, file>>

NoRet == [kind |-> "none"]
NoProbe == [phase |-> "off"]
Banner == [kind |-> "banner"]
NoFile == [kind |-> "none"]

\* The state an event or a call finds.
Before ==
  [messages |-> messages, errors |-> errors, warnings |-> warnings,
   reportedErrors |-> reportedErrors, failedUrls |-> failedUrls,
   sink |-> sink, firstNav |-> firstNav]

Handled(op, ev, sinkOk) ==
  [op |-> op, ev |-> ev, sinkOk |-> sinkOk, pre |-> Before]

\* attachConsoleCapture(page, options), and the constructor it runs.
Attach(ob, al, t, sf) ==
  /\ options = [baseUrl |-> ob]
  /\ saveToFile = Truthy(sf)
  /\ file = NoFile
  /\ onceListener = ~Truthy(ob)
  /\ baseUrl = (IF Truthy(ob) THEN ob.s ELSE <<>>)
  /\ autoLog = (al # "false")
  /\ startTime = t
  /\ messages = <<>>
  /\ errors = 0
  /\ warnings = 0
  /\ reportedErrors = {}
  /\ sink = (IF al # "false" THEN <<Banner>> ELSE <<>>)
  /\ given = ob
  /\ last = [op |-> "attach", ev |-> ob, sinkOk |-> TRUE,
             pre |-> [messages |-> <<>>, errors |-> 0, warnings |-> 0,
                      reportedErrors |-> {}, failedUrls |-> {},
                      sink |-> <<>>, firstNav |-> JsUndef]]
  /\ raised = FALSE
  /\ ret = NoRet
  /\ produced = 0
  /\ failedUrls = {}
  /\ firstNav = JsUndef

\* Attached with file persistence left off, as it is by default.
Init ==
  /\ \E ob \in BaseUrlOptions, al \in AutoLogOptions, t \in StartTimes :
       Attach(ob, al, t, JsUndef)
  /\ probe = NoProbe

\* The record _logMessage builds.
Message(level, location, text, now) ==
  [timestamp |-> _getTimestamp(now, startTime), level |-> level,
   location |-> location, text |-> text, time |-> now]

\* The line _logMessage writes for a record.
Line(msg) ==
  [kind |-> "record",
   emoji |-> (IF msg.level = "ERROR" THEN "x"
              ELSE IF msg.level = "WARN" THEN "!" ELSE "i"),
   timestamp |-> msg.timestamp,
   level |-> msg.level,
   locStr |-> (IF msg.location # <<>> THEN <<"\t">> \o msg.location ELSE <<>>),
   text |-> msg.text]

\* Whether _logMessage writes the record it has pushed.
Writes_Always == TRUE

Writes == autoLog

\* ConsoleCapture._logMessage: push the record, then write it when autoLog
\* is set; sinkOk is whether that console.log call returns (it throws if not).
_logMessage(level, location, text, now, sinkOk) ==
  LET msg == Message(level, location, text, now)
  IN /\ messages' = Append(messages, msg)
     /\ IF Writes
        THEN IF sinkOk
             THEN sink' = Append(sink, Line(msg)) /\ raised' = FALSE
             ELSE sink' = sink /\ raised' = TRUE
        ELSE sink' = sink /\ raised' = FALSE

\* this.errors after the console handler has classified a message.
ConsoleErrors_CountsWarnings(level) ==
  IF level \in {"ERROR", "WARN"} THEN errors + 1 ELSE errors

ConsoleErrors(level) == IF level = "ERROR" THEN errors + 1 ELSE errors

\* The page.on('console') handler.
Console(ev, now, sinkOk) ==
  LET level == ConsoleLevel(ev.type)
  IN /\ errors' = ConsoleErrors(level)
     /\ warnings' = (IF level = "WARN" THEN warnings + 1 ELSE warnings)
     /\ IF ev.loc.present
        THEN _logMessage(level,
                         _formatLocation(baseUrl, ev.loc.url, ev.loc.lineNumber,
                                         ev.loc.columnNumber),
                         ev.text, now, sinkOk)
        ELSE \* loc.url of undefined: a TypeError before _logMessage is called
             /\ messages' = messages
             /\ sink' = sink
             /\ raised' = TRUE
     /\ last' = Handled("console", ev, sinkOk)
     /\ ret' = NoRet
     /\ produced' = produced + 1
     /\ UNCHANGED <<saveToFile, file, given, baseUrl, autoLog, startTime, reportedErrors, options,
                    onceListener, failedUrls, firstNav, probe>>

\* The text and, when the stack has no frame, the location of the record of
\* an uncaught exception.
UncaughtText_NoPrefix(message) == message

UncaughtText(message) == Str_Uncaught \o message

\* The page.on('pageerror') handler.
PageError(err, now, sinkOk) ==
  LET src == IF Truthy(err.stack) THEN err.stack.s ELSE err.message
      match == MatchFrame(src)
  IN /\ errors' = errors + 1
     /\ _logMessage("ERROR",
                    IF match.found
                    THEN _formatLocation(baseUrl, JsStr(match.file),
                                         JsStr(match.line), JsStr(match.col))
                    ELSE <<>>,
                    UncaughtText(err.message), now, sinkOk)
     /\ last' = Handled("pageerror", err, sinkOk)
     /\ ret' = NoRet
     /\ produced' = produced + 1
     /\ UNCHANGED <<saveToFile, file, given, baseUrl, autoLog, startTime, warnings, reportedErrors,
                    options, onceListener, failedUrls, firstNav, probe>>

\* The location the response handler shows for a URL.
DisplayUrl(base, url) == IF base # <<>> THEN ReplaceFirst(url, base) ELSE url

\* The key under which the response handler remembers a failed URL.
DedupKey_WithStatus(resp) == resp.url \o NumToStr(resp.status)

DedupKey_Displayed(resp) == DisplayUrl(baseUrl, resp.url)

DedupKey(resp) == resp.url

\* Whether the response handler reports a response.
Reports_NoDedup(resp) == resp.status >= 400

Reports_AnyStatus(resp) == resp.url \notin reportedErrors

Reports(resp) ==
  resp.status >= 400 /\ DedupKey(resp) \notin reportedErrors

\* The page.on('response') handler.
Response(resp, now, sinkOk) ==
  /\ IF Reports(resp)
     THEN /\ reportedErrors' = reportedErrors \cup {DedupKey(resp)}
          /\ errors' = errors + 1
          /\ _logMessage("ERROR", DisplayUrl(baseUrl, resp.url),
                         Str_HTTP \o NumToStr(resp.status) \o <<" ", "(">>
                           \o resp.statusText \o <<")">>,
                         now, sinkOk)
     ELSE /\ UNCHANGED <<reportedErrors, errors, messages, sink>>
          /\ raised' = FALSE
  /\ last' = Handled("response", resp, sinkOk)
  /\ ret' = NoRet
  /\ produced' = (IF resp.status >= 400 /\ resp.url \notin failedUrls
                  THEN produced + 1 ELSE produced)
  /\ failedUrls' = (IF resp.status >= 400 THEN failedUrls \cup {resp.url}
                    ELSE failedUrls)
  /\ UNCHANGED <<saveToFile, file, given, baseUrl, autoLog, startTime, warnings, options, onceListener,
                 firstNav, probe>>

\* Whether the framenavigated listener is still registered after it has
\* run: page.once removes it.
StaysRegistered_On == TRUE

StaysRegistered == FALSE

\* A framenavigated event: the listener attachConsoleCapture registered with
\* page.once, when it registered one.
FrameNavigated(nav) ==
  /\ IF onceListener
     THEN /\ onceListener' = StaysRegistered
          /\ IF nav.main /\ Truthy(nav.url) /\ StartsWith(nav.url.s, Str_http)
             THEN options' = [baseUrl |-> JsStr(UrlOrigin(nav.url.s))]
             ELSE options' = options
     ELSE UNCHANGED <<onceListener, options>>
  /\ last' = Handled("framenavigated", nav, TRUE)
  /\ raised' = FALSE
  /\ ret' = NoRet
  /\ firstNav' = (IF ~Truthy(firstNav) /\ nav.main /\ Truthy(nav.url)
                     /\ StartsWith(nav.url.s, Str_http)
                  THEN JsStr(UrlOrigin(nav.url.s)) ELSE firstNav)
  /\ UNCHANGED <<saveToFile, file, given, baseUrl, autoLog, startTime, messages, errors, warnings,
                 reportedErrors, sink, produced, failedUrls, probe>>

\* One record line of the report.
ReportLine(msg) ==
  [timestamp |-> msg.timestamp, level |-> msg.level,
   locStr |-> (IF msg.location # <<>> THEN <<"\t">> \o msg.location ELSE <<>>),
   text |-> msg.text]

\* The text getOutput returns, but for its clock readings (elapsed time,
\* start and completion dates): title, counts, record lines, trailers.
Report(title, msgs) ==
  [kind |-> "report",
   title |-> (IF title.t = "undef" THEN DefaultTitle ELSE Interpolate(title)),
   errors |-> errors, warnings |-> warnings, total |-> Len(msgs),
   lines |-> [i \in 1..Len(msgs) |-> ReportLine(msgs[i])],
   errorTrailer |-> (errors > 0), warningTrailer |-> (warnings > 0)]

\* ConsoleCapture.getOutput(title): this.messages.sort(...) sorts in place.
GetOutput(title) ==
  /\ messages' = SortByTime(messages)
  /\ ret' = Report(title, SortByTime(messages))
  /\ last' = [op |-> "getOutput", ev |-> title, sinkOk |-> TRUE,
              pre |-> Before, prevRet |-> ret]
  /\ raised' = FALSE
  /\ UNCHANGED <<saveToFile, file, given, baseUrl, autoLog, startTime, errors, warnings, reportedErrors,
                 options, onceListener, sink, produced, failedUrls, firstNav,
                 probe>>

\* ConsoleCapture.getSummary(), but for its elapsed time.
GetSummary ==
  /\ ret' = [kind |-> "summary", messages |-> Len(messages),
             errors |-> errors, warnings |-> warnings]
  /\ last' = Handled("getSummary", JsUndef, TRUE)
  /\ raised' = FALSE
  /\ UNCHANGED <<saveToFile, file, given, baseUrl, autoLog, startTime, messages, errors, warnings,
                 reportedErrors, options, onceListener, sink, produced,
                 failedUrls, firstNav, probe>>

\* The title saveOutput works with: its parameter's default replaces an
\* undefined argument.
SaveTitle(title) ==
  IF title.t = "undef" THEN JsStr(Str_console_capture) ELSE title

Rule == [kind |-> "rule"]
Saved == [kind |-> "saved"]

\* ConsoleCapture.saveOutput(title): getOutput(title) written to a new file
\* of test-results (its name, made of filePrefix and the date, is left out),
\* and a line naming the file written to the sink.
SaveOutput(title) ==
  /\ messages' = SortByTime(messages)
  /\ file' = Report(SaveTitle(title), SortByTime(messages))
  /\ sink' = Append(sink, Saved)
  /\ ret' = [kind |-> "filepath"]
  /\ last' = Handled("saveOutput", title, TRUE)
  /\ raised' = FALSE
  /\ UNCHANGED <<saveToFile, given, baseUrl, autoLog, startTime, errors,
                 warnings, reportedErrors, options, onceListener, produced,
                 failedUrls, firstNav, probe>>

\* ConsoleCapture.printSummary(title): getOutput(title) written to the sink
\* between two rules, then saveOutput(title) when saveToFile is set.
PrintSummary(title) ==
  /\ messages' = SortByTime(messages)
  /\ IF saveToFile
     THEN /\ file' = Report(SaveTitle(title), SortByTime(messages))
          /\ sink' = sink \o <<Rule, Report(title, SortByTime(messages)), Rule,
                               Saved>>
     ELSE /\ file' = file
          /\ sink' = sink \o <<Rule, Report(title, SortByTime(messages)), Rule>>
  /\ ret' = NoRet
  /\ last' = Handled("printSummary", title, TRUE)
  /\ raised' = FALSE
  /\ UNCHANGED <<saveToFile, given, baseUrl, autoLog, startTime, errors,
                 warnings, reportedErrors, options, onceListener, produced,
                 failedUrls, firstNav, probe>>

\* The model delivers events while the log and the counters are below the
\* bound.
CanDeliver ==
  /\ Len(messages) < MaxMessages
  /\ errors < MaxMessages
  /\ warnings < MaxMessages

\* The model prints or saves a report while the sink holds fewer than
\* MaxReports printed reports and notices of a saved file.
CanReport ==
  Len(SelectSeq(sink, LAMBDA l : l.kind \in {"report", "saved"})) < MaxReports

\* Events as Playwright and Node deliver them: location() is an object and
\* console.log returns.
Next ==
  \/ \E ev \in ConsoleEvents, now \in SteadyClock :
       CanDeliver /\ Console(ev, now, TRUE)
  \/ \E err \in PageErrors, now \in SteadyClock :
       CanDeliver /\ PageError(err, now, TRUE)
  \/ \E resp \in Responses, now \in SteadyClock :
       CanDeliver /\ Response(resp, now, TRUE)
  \/ \E title \in Titles : GetOutput(title)
  \/ GetSummary

Spec == Init /\ [][Next]_vars

\* The same, with the page navigating.
NextNav ==
  \/ \E now \in SteadyClock : CanDeliver /\ Console(ConsoleError, now, TRUE)
  \/ \E now \in SteadyClock : CanDeliver /\ PageError(ErrorWithStack, now, TRUE)
  \/ \E resp \in Responses, now \in SteadyClock :
       CanDeliver /\ Response(resp, now, TRUE)
  \/ \E nav \in Navigations : FrameNavigated(nav)

SpecNav == Init /\ [][NextNav]_vars

\* The same, with a wall clock that may advance or step back.
NextClock ==
  \/ \E ev \in {ConsoleError, ConsoleWarning}, now \in ClockValues :
       CanDeliver /\ Console(ev, now, TRUE)
  \/ \E now \in ClockValues : CanDeliver /\ PageError(ErrorNoStack, now, TRUE)
  \/ \E now \in ClockValues : CanDeliver /\ Response(Resp(UrlA, 404), now, TRUE)
  \/ \E title \in Titles : GetOutput(title)
  \/ GetSummary

SpecClock == Init /\ [][NextClock]_vars

\* Events of a host as the specification describes it: location data may be
\* absent and a write to the sink may fail.
NextHost ==
  \/ \E ev \in HostConsoleEvents, now \in SteadyClock, sinkOk \in BOOLEAN :
       CanDeliver /\ Console(ev, now, sinkOk)
  \/ \E err \in HostPageErrors, now \in SteadyClock, sinkOk \in BOOLEAN :
       CanDeliver /\ PageError(err, now, sinkOk)
  \/ \E resp \in ResponsesA, now \in SteadyClock, sinkOk \in BOOLEAN :
       CanDeliver /\ Response(resp, now, sinkOk)
  \/ GetSummary

SpecHost == Init /\ [][NextHost]_vars

\* The same, with a clock that never steps back and a test that runs for
\* up to 100 seconds.
NextStamp ==
  \/ \E ev \in {ConsoleError, ConsoleWarning}, now \in StampClock :
       /\ CanDeliver
       /\ \A i \in 1..Len(messages) : messages[i].time <= now
       /\ Console(ev, now, TRUE)
  \/ \E title \in Titles : GetOutput(title)

SpecStamp == Init /\ [][NextStamp]_vars

\* Attached with or without file persistence.
InitPrint ==
  /\ \E ob \in BaseUrlOptions, al \in AutoLogOptions, t \in StartTimes,
        sf \in SaveToFileOptions :
       Attach(ob, al, t, sf)
  /\ probe = NoProbe

\* A test that prints or saves its report at most MaxReports times.
NextPrint ==
  \/ \E ev \in {ConsoleError, ConsoleWarning}, now \in SteadyClock :
       CanDeliver /\ Console(ev, now, TRUE)
  \/ \E now \in SteadyClock : CanDeliver /\ Response(Resp(UrlA, 404), now, TRUE)
  \/ \E title \in Titles : CanReport /\ PrintSummary(title)
  \/ \E title \in Titles : CanReport /\ SaveOutput(title)

SpecPrint == InitPrint /\ [][NextPrint]_vars


\* _formatLocation applied to every URL and base prefix of the bounds, with
\* no line number.
FormatChars == {"x", "/", "a"}
StringsUpTo(n) == UNION {[1..k -> FormatChars] : k \in 0..n}

InitFormat ==
  /\ Attach(JsUndef, "false", 1000, JsUndef)
  /\ \E base \in StringsUpTo(MaxPrefixLen), url \in StringsUpTo(MaxUrlLen) :
       probe = [phase |-> "input", base |-> base, url |-> url, out |-> <<>>]

ApplyFormat ==
  /\ probe.phase = "input"
  /\ probe' = [probe EXCEPT
                 !.phase = "done",
                 !.out = _formatLocation(probe.base, JsStr(probe.url),
                                         JsUndef, JsUndef)]
  /\ UNCHANGED aggregator

SpecFormat == InitFormat /\ [][ApplyFormat]_vars


\* ------------------------------------------------------------------- claims

\* The stored records of a level.
CountLevel(level) ==
  Cardinality({i \in 1..Len(messages) : messages[i].level = level})

IsEvent == last.op \in {"console", "pageerror", "response"}

\* The record the last event appended, when it appended one.
Appended == Len(messages) = Len(last.pre.messages) + 1
NewRecord == messages[Len(messages)]

\* C1: after every handler invocation, in any interleaving of console,
\* pageerror and response events, errors is the number of stored records of
\* level ERROR and warnings the number of stored records of level WARN.
C1_CountersMatchRecords ==
  /\ errors = CountLevel("ERROR")
  /\ warnings = CountLevel("WARN")

\* C1's case: a warning, an error and then an uncaught exception are stored.
C1_Witness ==
  /\ last.op = "pageerror"
  /\ errors = 2
  /\ warnings = 1
  /\ Len(messages) = 3

\* C2: of the responses with status >= 400 for one URL only the first
\* appends a record and increments errors; every later one, whatever its
\* status and whatever happened in between, leaves messages, errors,
\* warnings and reportedErrors as they were.
C2_OneRecordPerFailedUrl ==
  (last.op = "response" /\ last.ev.status >= 400) =>
    IF last.ev.url \in last.pre.failedUrls
    THEN /\ messages = last.pre.messages
         /\ errors = last.pre.errors
         /\ warnings = last.pre.warnings
         /\ reportedErrors = last.pre.reportedErrors
    ELSE /\ Appended
         /\ SubSeq(messages, 1, Len(messages) - 1) = last.pre.messages
         /\ errors = last.pre.errors + 1

\* C2's case: a 500 for a URL that was reported with a 404 before, after the
\* page has navigated and other events have been stored.
C2_Witness ==
  /\ last.op = "response"
  /\ last.ev.status = 500
  /\ last.ev.url \in last.pre.failedUrls
  /\ Truthy(firstNav)
  /\ Len(messages) = 2
  /\ messages[1].text = Str_HTTP \o <<"4", "0", "4", " ", "(", "N", "F", ")">>
  /\ messages[2].level = "ERROR"

\* C3: getSummary().messages is the number of events that produced a
\* record: every console event, every pageerror event and the first
\* response with status >= 400 of each URL.
C3_MessagesCountsRecordedEvents ==
  /\ Len(messages) = produced
  /\ (ret.kind = "summary" => ret.messages = produced)

\* C3's case: a summary taken after a warning, a failed resource, an uncaught
\* exception and a second failure of the same resource.
C3_Witness ==
  /\ ret.kind = "summary"
  /\ ret.messages = 3
  /\ ret.errors = 2
  /\ ret.warnings = 1
  /\ Cardinality(failedUrls) = 1
  /\ \E i \in 1..Len(messages) : messages[i].text = UncaughtText(<<"x">>)

\* C4: attached without a baseUrl option, the aggregator learns the base
\* prefix from the first main-frame navigation to an http(s) URL: no record
\* captured after it has a location that still begins with that URL's
\* origin.
C4_LocationStrippedAfterNavigation ==
  (/\ ~Truthy(given)
   /\ Truthy(last.pre.firstNav)
   /\ IsEvent
   /\ Appended)
  => ~StartsWith(NewRecord.location, last.pre.firstNav.s)

\* C5: getOutput leaves the counters, the dedup set and the stored messages
\* (contents and order) as they were, and two calls with the same title and
\* no event in between return the same report.
C5_GetOutputDoesNotMutate ==
  last.op = "getOutput" =>
    /\ messages = last.pre.messages
    /\ errors = last.pre.errors
    /\ warnings = last.pre.warnings
    /\ reportedErrors = last.pre.reportedErrors
    /\ (last.prevRet.kind = "report" /\ last.prevRet.title = ret.title
          => ret = last.prevRet)

\* C6: the path _formatLocation returns is the URL without the prefix and
\* without one leading "/" when the prefix is non-empty and the URL starts
\* with it, and the URL unchanged otherwise.
C6_PrefixStripping ==
  probe.phase = "done" =>
    IF probe.base # <<>> /\ StartsWith(probe.url, probe.base)
    THEN probe.out =
           StripLeadingSlash(SubSeq(probe.url, Len(probe.base) + 1,
                                    Len(probe.url)))
    ELSE probe.out = probe.url

LowerOf ==
  [c \in {"A", "E", "G", "I", "N", "O", "R", "W"} |->
     CASE c = "A" -> "a" [] c = "E" -> "e" [] c = "G" -> "g" [] c = "I" -> "i"
       [] c = "N" -> "n" [] c = "O" -> "o" [] c = "R" -> "r" [] c = "W" -> "w"]

\* Two strings are equal but for the case of their letters.
EqualsIgnoringCase(a, b) ==
  /\ Len(a) = Len(b)
  /\ \A i \in 1..Len(a) :
       (IF a[i] \in DOMAIN LowerOf THEN LowerOf[a[i]] ELSE a[i])
         = (IF b[i] \in DOMAIN LowerOf THEN LowerOf[b[i]] ELSE b[i])

\* The level the claim gives a console message of this type.
ClaimedLevel(type) ==
  IF EqualsIgnoringCase(type, <<"e", "r", "r", "o", "r">>) THEN "ERROR"
  ELSE IF EqualsIgnoringCase(type, <<"w", "a", "r", "n", "i", "n", "g">>)
  THEN "WARN"
  ELSE "INFO"

\* C7: every console event appends exactly one record, of the level its type
\* names case-insensitively (error: ERROR, warning: WARN, anything else:
\* INFO), and adds exactly one to errors for ERROR, to warnings for WARN and
\* to neither for INFO.
C7_ConsoleRecordAndLevel ==
  last.op = "console" =>
    LET level == ClaimedLevel(last.ev.type)
    IN /\ Appended
       /\ SubSeq(messages, 1, Len(messages) - 1) = last.pre.messages
       /\ NewRecord.level = level
       /\ NewRecord.text = last.ev.text
       /\ errors = last.pre.errors + (IF level = "ERROR" THEN 1 ELSE 0)
       /\ warnings = last.pre.warnings + (IF level = "WARN" THEN 1 ELSE 0)

\* C7's case: the same console message of type "Warning" delivered twice is
\* stored twice, as WARN.
C7_Witness ==
  /\ last.op = "console"
  /\ last.ev = ConsoleWarning
  /\ Len(messages) = 2
  /\ messages[1] = messages[2]
  /\ warnings = 2

C9_AbsentLocationIsHandled ==
  (/\ last.sinkOk
   /\ \/ last.op = "console"
           /\ (~last.ev.loc.present \/ ~Truthy(last.ev.loc.url))
      \/ last.op = "pageerror" /\ ~Truthy(last.ev.stack))
  => /\ ~raised
     /\ Appended
     /\ NewRecord.location = <<>>
     /\ errors = CountLevel("ERROR")
     /\ warnings = CountLevel("WARN")

RecordLines == SelectSeq(sink, LAMBDA l : l.kind = "record")

\* A written line shows this record.
ShowsRecord(line, msg) ==
  /\ line.kind = "record"
  /\ line.timestamp = msg.timestamp
  /\ line.level = msg.level
  /\ line.text = msg.text
  /\ line.locStr = (IF msg.location = <<>> THEN <<>>
                    ELSE <<"\t">> \o msg.location)

\* C11: with autoLog, the record lines written to the sink are the stored
\* records, one line each and in the order they were appended, and an event
\* that appends a record writes that record's line and nothing else in the
\* same invocation; without autoLog nothing is ever written, neither at
\* construction nor by a handler.
C11_RecordsEmittedOnce ==
  IF autoLog
  THEN /\ Len(RecordLines) = Len(messages)
       /\ \A i \in 1..Len(messages) : ShowsRecord(RecordLines[i], messages[i])
       /\ (IsEvent =>
             IF Appended
             THEN /\ Len(sink) = Len(last.pre.sink) + 1
                  /\ SubSeq(sink, 1, Len(sink) - 1) = last.pre.sink
                  /\ ShowsRecord(sink[Len(sink)], NewRecord)
             ELSE sink = last.pre.sink)
  ELSE sink = <<>>

\* C11's case: with autoLog, the start banner and then the lines of three
\* stored records, the last one of a failed resource.
C11_Witness ==
  /\ autoLog
  /\ Len(messages) = 3
  /\ Len(sink) = 4
  /\ sink[1] = Banner
  /\ last.op = "response"
  /\ Appended
  /\ sink[4].locStr = <<"\t">> \o NewRecord.location

\* The report printSummary wrote to the sink: between the last two rules.
PrintedReport ==
  LET rules == {i \in 1..Len(sink) : sink[i].kind = "rule"}
      close == CHOOSE i \in rules : \A j \in rules : j <= i
  IN sink[close - 1]

\* C12: with file persistence on, printSummary(title) writes to the file the
\* report it wrote to the sink, whether a title is passed or not: the same
\* title line, the same counts and the same record lines.
C12_FileMatchesPrintedReport ==
  (last.op = "printSummary" /\ saveToFile) =>
    /\ file.kind = "report"
    /\ PrintedReport.kind = "report"
    /\ file.title = PrintedReport.title
    /\ file.errors = PrintedReport.errors
    /\ file.warnings = PrintedReport.warnings
    /\ file.total = PrintedReport.total
    /\ file.lines = PrintedReport.lines

\* The one-to-one mappings of 1..n onto itself.
Orderings(n) ==
  {f \in [1..n -> 1..n] : \A i, j \in 1..n : f[i] = f[j] => i = j}

\* C13: getOutput lists every stored record exactly once, in ascending order
\* of capture time, records of equal capture time in the order they were
\* stored in, and its header shows the errors, the warnings and the number
\* of messages of the moment of the call.
C13_ReportListsRecordsByTime ==
  last.op = "getOutput" =>
    LET pre == last.pre.messages
        n == Len(pre)
    IN /\ ret.kind = "report"
       /\ ret.errors = errors
       /\ ret.warnings = warnings
       /\ ret.total = n
       /\ Len(ret.lines) = n
       /\ \E f \in Orderings(n) :
            /\ \A i \in 1..n :
                 /\ ret.lines[i].timestamp = pre[f[i]].timestamp
                 /\ ret.lines[i].level = pre[f[i]].level
                 /\ ret.lines[i].text = pre[f[i]].text
                 /\ ret.lines[i].locStr =
                      (IF pre[f[i]].location = <<>> THEN <<>>
                       ELSE <<"\t">> \o pre[f[i]].location)
            /\ \A i, j \in 1..n :
                 i < j => \/ pre[f[i]].time < pre[f[j]].time
                          \/ pre[f[i]].time = pre[f[j]].time /\ f[i] < f[j]

\* C13's case: a report of three records stored at times 1040, 1000 and
\* 1040, the two of time 1040 being an error and then a warning.
C13_Witness ==
  /\ last.op = "getOutput"
  /\ Len(last.pre.messages) = 3
  /\ last.pre.messages[1].time = 1040
  /\ last.pre.messages[1].level = "ERROR"
  /\ last.pre.messages[2].time = 1000
  /\ last.pre.messages[3].time = 1040
  /\ last.pre.messages[3].level = "WARN"
  /\ ret.lines[1].timestamp = last.pre.messages[2].timestamp
  /\ ret.lines[2].level = "ERROR"
  /\ ret.lines[3].level = "WARN"

\* The timestamp the claim gives an elapsed time of ms milliseconds: the
\* seconds in at least two digits, a point, and the hundredths in two.
ClaimedTimestamp(ms) ==
  LET hundredths == (ms + 5) \div 10
      seconds == NumToStr(hundredths \div 100)
  IN (IF Len(seconds) < 2 THEN <<"0">> ELSE <<>>) \o seconds \o <<".">>
       \o NumToStr((hundredths % 100) \div 10) \o NumToStr(hundredths % 10)

\* C14: the timestamp of a record is the time elapsed from startTime to the
\* record's creation, in seconds with two decimals and padded with zeros to
\* at least five characters; it is stored in the record, and the line
\* written when the record was appended and every later report show that
\* stored value.
C14_TimestampFormatAndFrozen ==
  /\ \A i \in 1..Len(messages) :
       messages[i].timestamp =
         <<"[">> \o ClaimedTimestamp(messages[i].time - startTime) \o <<"]">>
  /\ (autoLog =>
        \A i \in 1..Len(messages) :
          RecordLines[i].timestamp = messages[i].timestamp)
  /\ (ret.kind = "report" =>
        \A i \in 1..Len(ret.lines) :
          ret.lines[i].timestamp = messages[i].timestamp)

\* C14's case: a report of records created 0.04 s, 12.5 s and 100 s after
\* the start.
C14_Witness ==
  /\ last.op = "getOutput"
  /\ Len(ret.lines) = 3
  /\ ret.lines[1].timestamp = <<"[", "0", "0", ".", "0", "4", "]">>
  /\ ret.lines[2].timestamp = <<"[", "1", "2", ".", "5", "0", "]">>
  /\ ret.lines[3].timestamp = <<"[", "1", "0", "0", ".", "0", "0", "]">>

\* C15: the location of the record of a failed resource is what
\* _formatLocation returns for the response's URL with no line number under
\* this.baseUrl: the prefix removed and then one leading "/".
C15_FailedResourceLocationNormalized ==
  (last.op = "response" /\ Appended) =>
    NewRecord.location =
      _formatLocation(baseUrl, JsStr(last.ev.url), JsUndef, JsUndef)

\* The location the claim gives a URL, a line and a column, the path being
\* the URL with the base prefix removed.
ClaimedLocation(base, url, lineNum, colNum) ==
  IF url.t = "undef" \/ url.s = <<>> THEN <<>>
  ELSE LET path == FormatFile(base, url.s)
       IN IF lineNum.t = "num" /\ lineNum.n > 0
          THEN IF colNum.t = "num"
               THEN path \o <<":">> \o NumToStr(lineNum.n) \o <<":">>
                      \o NumToStr(colNum.n)
               ELSE path \o <<":">> \o NumToStr(lineNum.n)
          ELSE path

\* C16: the location _formatLocation returns for a console message is the
\* path, then ":" and the line when the line is available and positive, then
\* ":" and the column whenever a column is available, column 0 included; the
\* bare path when the line is absent or not positive; the empty string when
\* there is no path.
C16_LineColumnSuffix ==
  (last.op = "console" /\ Appended) =>
    NewRecord.location =
      ClaimedLocation(baseUrl, last.ev.loc.url, last.ev.loc.lineNumber,
                      last.ev.loc.columnNumber)

\* C17: the base prefix is fixed for the aggregator's lifetime: no event
\* changes the prefix the aggregator applies to locations (this.baseUrl),
\* and a prefix supplied in the options or learned from a navigation is not
\* replaced by any later navigation.
C17_PrefixFixed ==
  [][/\ baseUrl' = baseUrl
     /\ (Truthy(options.baseUrl) => options'.baseUrl = options.baseUrl)]_vars

\* C17's case: a main-frame navigation to another origin than the one
\* learned from an earlier navigation.
C17_Witness ==
  /\ last.op = "framenavigated"
  /\ last.ev.main
  /\ StartsWith(last.ev.url.s, Str_http)
  /\ ~Truthy(given)
  /\ Truthy(options.baseUrl)
  /\ UrlOrigin(last.ev.url.s) # options.baseUrl.s
  /\ Len(messages) > 0

\* C18: a response with a status below 400 changes nothing: messages,
\* errors, warnings and reportedErrors stay as they were and nothing is
\* written to the sink; so the first response with status >= 400 for a URL
\* is reported whether or not the URL has succeeded before.
C18_SuccessChangesNothing ==
  /\ (last.op = "response" /\ last.ev.status < 400) =>
       /\ messages = last.pre.messages
       /\ errors = last.pre.errors
       /\ warnings = last.pre.warnings
       /\ reportedErrors = last.pre.reportedErrors
       /\ sink = last.pre.sink
  /\ (/\ last.op = "response"
      /\ last.ev.status >= 400
      /\ last.ev.url \notin last.pre.failedUrls) =>
       /\ Appended
       /\ NewRecord.level = "ERROR"
       /\ errors = last.pre.errors + 1
       /\ last.ev.url \in reportedErrors

\* C18's case: a response with status 200 for a URL that has not failed,
\* after another URL's failure and a console message have been stored.
C18_Witness ==
  /\ last.op = "response"
  /\ last.ev.status = 200
  /\ last.ev.url = UrlA
  /\ failedUrls = {UrlB}
  /\ Len(messages) = 2
  /\ autoLog
  /\ Len(sink) = 3

\* The stored records of failed resources: those with a text "HTTP ...".
FailedResourceRecords ==
  {i \in 1..Len(messages) : StartsWith(messages[i].text, Str_HTTP)}

\* C19: reportedErrors is the set of the raw URLs of the responses with
\* status >= 400 seen so far, and has as many elements as there are stored
\* records of failed resources; it never shrinks, and console events,
\* pageerror events, getOutput and getSummary leave it as it was.
C19_DedupSetIsFailedUrls ==
  /\ reportedErrors = failedUrls
  /\ Cardinality(reportedErrors) = Cardinality(FailedResourceRecords)
  /\ last.pre.reportedErrors \subseteq reportedErrors
  /\ (last.op \in {"console", "pageerror", "getOutput", "getSummary"} =>
        reportedErrors = last.pre.reportedErrors)

\* C19's case: a console message handled after two URLs have failed, one of
\* them under the base prefix.
C19_Witness ==
  /\ last.op = "console"
  /\ baseUrl = Origin
  /\ reportedErrors = {UrlA, UrlB}
  /\ Len(messages) = 3
  /\ Cardinality(FailedResourceRecords) = 2

====
